---- MODULE Spec2Model ----
(***************************************************************************)
(* A model of scrrpy: the DRR class (src/scrrpy/drr.py), its two memoised  *)
(* methods, the Monte Carlo integrand, the ResInterp lookup tables and the *)
(* command line entry point (src/scrrpy/cli.py).                           *)
(*                                                                         *)
(* Numbers.  Floating point quantities are carried as integers:            *)
(*   - physical parameters are integer codes (gamma in hundredths);        *)
(*   - a logspace grid is carried by the exponents numpy.linspace          *)
(*     produces, as numerators over the common denominator num - 1, and    *)
(*     10**x is strictly increasing, so comparing exponents compares the   *)
(*     grid points;                                                        *)
(*   - frequencies are integers in units of 1e-8.                          *)
(***************************************************************************)
EXTENDS Integers, Sequences, FiniteSets, TLC

VARIABLES
  drr_obj,     \* the DRR instance built last, and how it was built
  drr_cache,   \* lru_cache of DRR.drr: most recently used first
  res_cache,   \* lru_cache of DRR._res_intrp: most recently used first
  hist,        \* bookkeeping of the calls made on the caches
  integ,       \* one DRR._drr call: the vegas integration in progress
  ri,          \* one ResInterp instance
  res          \* the outcome of the last get_jf1 / get_jf2 call

vars == <<drr_obj, drr_cache, res_cache, hist, integ, ri, res>>

----------------------------------------------------------------------------
(* Helpers *)

Abs(x) == IF x < 0 THEN -x ELSE x

Range(s) == {s[k] : k \in DOMAIN s}

RECURSIVE GCD(_, _)
GCD(a, b) == IF b = 0 THEN a ELSE GCD(b, a % b)

\* numpy.linspace(start, stop, num): start + k*(stop - start)/(num - 1) for
\* k = 0 .. num-1.  The values are returned multiplied by LinDiv(num), which
\* keeps them exact integers.
LinDiv(num) == IF num > 1 THEN num - 1 ELSE 1

linspace(start, stop, num) ==
  [k \in 1..num |-> start * (LinDiv(num) - (k - 1)) + stop * (k - 1)]

\* s[:-1]
DropLast(s) == IF Len(s) = 0 THEN s ELSE SubSeq(s, 1, Len(s) - 1)

\* {**defaults, **kwargs}
Merge(defaults, kwargs) ==
  [k \in DOMAIN defaults \cup DOMAIN kwargs |->
     IF k \in DOMAIN kwargs THEN kwargs[k] ELSE defaults[k]]

----------------------------------------------------------------------------
(* DRR.__init__ and the command line                                       *)

\* Bounds of the construction inputs.
MaxNjs == 4
MaxL == 3

GammaVals == {175, 150}
MbhVals == {4000000, 1000000}
MstarVals == {1, 10}
RhVals == {2, 3}
\* log10(jlc(sma)) as the cusp model returns it; 0 is jlc = 1
LogJlcVals == (0 - MaxL)..0

\* drr.py 33-38
DefaultKwargs ==
  [l_max |-> 1, gamma |-> 175, mbh |-> 4000000, mstar |-> 1, Njs |-> 101,
   rh |-> 2]

\* The grid with its last point kept
JGrid_keep_last(ljlc, Njs) == linspace(ljlc, 0, Njs)

\* drr.py 47-48: np.logspace(np.log10(jlc), 0, Njs)[:-1], as exponents times
\* LinDiv(Njs)
JGrid(ljlc, Njs) == DropLast(linspace(ljlc, 0, Njs))

\* The arguments Cusp.__init__ is called with, drr.py 41-44
CuspArgs(kw) ==
  [gamma |-> kw["gamma"], mbh |-> kw["mbh"], mstar |-> kw["mstar"],
   rh |-> kw["rh"]]

\* DRR.__init__(sma, **kwargs); ljlc is log10 of self.jlc(self.sma)
DRRInit(how, opts, ljlc, kwargs) ==
  LET kw == Merge(DefaultKwargs, kwargs) IN
  [how |-> how, opts |-> opts, cusp |-> CuspArgs(kw), ljlc |-> ljlc,
   Njs |-> kw["Njs"], j |-> JGrid(ljlc, kw["Njs"]), l_max |-> kw["l_max"]]

NoOpts == [gamma |-> 0, mstar |-> 0, mbh |-> 0, rh |-> 0]

NoObj ==
  [how |-> "none", opts |-> NoOpts, cusp |-> NoOpts, ljlc |-> 0, Njs |-> 0,
   j |-> <<>>, l_max |-> 0]

\* cli.py 35-37: main builds DRR(sma, gamma=gamma, mbh_mass=mbh,
\* star_mass=mstar, rh=rh)
Main ==
  \E gamma \in GammaVals, mstar \in MstarVals, mbh \in MbhVals,
     rh \in RhVals, ljlc \in LogJlcVals :
    /\ drr_obj' = DRRInit("main",
                          [gamma |-> gamma, mstar |-> mstar, mbh |-> mbh,
                           rh |-> rh],
                          ljlc,
                          [gamma |-> gamma, mbh_mass |-> mbh,
                           star_mass |-> mstar, rh |-> rh])
    /\ UNCHANGED <<drr_cache, res_cache, hist, integ, ri, res>>

\* A library user builds DRR(sma, Njs=..., mbh=..., gamma=...)
Construct ==
  \E Njs \in 1..MaxNjs, mbh \in MbhVals, gamma \in GammaVals,
     ljlc \in LogJlcVals :
    /\ drr_obj' = DRRInit("direct", NoOpts, ljlc,
                          [Njs |-> Njs, mbh |-> mbh, gamma |-> gamma])
    /\ UNCHANGED <<drr_cache, res_cache, hist, integ, ri, res>>

----------------------------------------------------------------------------
(* functools.lru_cache, as used on DRR.drr and DRR._res_intrp              *)

\* lru_cache() leaves maxsize at its default
lru_maxsize == 128

\* Bounds of the cache workloads.
NInst == 2
NGrid == 2
MaxN == 2
MaxCalls == 3
MaxSweep == 130

NevalVals == {1000, 2000}
\* drr.py 61: neval=1e3
DefaultNeval == 1000

\* How a call passes neval: left out, positional, or by keyword
Forms ==
  {[kind |-> "default", v |-> DefaultNeval]}
    \cup {[kind |-> k, v |-> v] : k \in {"pos", "kw"}, v \in NevalVals}

lru_index(cache, key) ==
  IF \E i \in DOMAIN cache : cache[i].key = key
  THEN CHOOSE i \in DOMAIN cache : cache[i].key = key
  ELSE 0

\* A hit moves the entry to the most recently used end
lru_touch(cache, key) ==
  LET i == lru_index(cache, key) IN
  <<cache[i]>> \o SubSeq(cache, 1, i - 1) \o SubSeq(cache, i + 1, Len(cache))

\* A miss stores the new entry and, when the cache is full, drops the least
\* recently used one
lru_insert(cache, key, val) ==
  IF Len(cache) >= lru_maxsize
  THEN <<[key |-> key, val |-> val]>> \o SubSeq(cache, 1, lru_maxsize - 1)
  ELSE <<[key |-> key, val |-> val]>> \o cache

\* The key lru_cache makes of a drr call (typed=False): the positional
\* arguments, then the keyword arguments
drr_key(self, l, n, n_p, form) ==
  [args |-> IF form.kind = "pos" THEN <<self, l, n, n_p, form.v>>
            ELSE <<self, l, n, n_p>>,
   kw |-> IF form.kind = "kw" THEN <<form.v>> ELSE <<>>]

\* The arguments the body of drr sees
EffKey(self, l, n, n_p, form) == <<self, l, n, n_p, form.v>>

\* drr.py 76: ratio = lnnp[1]/lnnp[-1]; two quotients are the same float
\* exactly when the fractions are equal, so the float is carried in lowest
\* terms
Ratio(n, n_p) == <<n \div GCD(n, n_p), n_p \div GCD(n, n_p)>>

Builds(built, key) == Cardinality({b \in built : b[1] = key})

\* One call self._res_intrp(ratio) (drr.py 52-54) on the state
\* st = [cache, built]: a miss constructs a ResInterp
res_intrp(st, self, ratio) ==
  LET key == <<self, ratio>> IN
  IF lru_index(st.cache, key) > 0
  THEN [cache |-> lru_touch(st.cache, key), built |-> st.built]
  ELSE [cache |-> lru_insert(st.cache, key, Builds(st.built, key) + 1),
        built |-> st.built \cup {<<key, Builds(st.built, key) + 1>>}]

\* One call of _drr (drr.py 74-93): Clnnp asks for the interpolator twice
\* (drr.py 82-83) each time vegas evaluates it
drr_point(st, self, n, n_p) ==
  res_intrp(res_intrp(st, self, Ratio(n, n_p)), self, Ratio(n, n_p))

\* The loop of drr over the grid (drr.py 69-71)
RECURSIVE drr_loop(_, _, _, _, _)
drr_loop(st, self, n, n_p, k) ==
  IF k = 0 THEN st
  ELSE drr_loop(drr_point(st, self, n, n_p), self, n, n_p, k - 1)

NoLast == [eff |-> <<>>, before |-> FALSE, ran |-> FALSE, arr |-> 0, prev |-> 0]

HistInit ==
  [calls |-> 0, runs |-> 0, done |-> {}, last |-> NoLast, built |-> {},
   swept |-> 0]

\* The array an earlier completed call with these arguments returned
PrevArr(done, eff) ==
  IF \E d \in done : d[1] = eff
  THEN (CHOOSE d \in done : d[1] = eff)[2]
  ELSE 0

\* DRR.drr(l, n, n_p[, neval]) through its lru_cache (drr.py 60-72)
drr(self, l, n, n_p, form) ==
  LET key == drr_key(self, l, n, n_p, form)
      eff == EffKey(self, l, n, n_p, form)
      i == lru_index(drr_cache, key)
      before == \E d \in hist.done : d[1] = eff
      prev == PrevArr(hist.done, eff)
  IN
  IF i > 0
  THEN /\ drr_cache' = lru_touch(drr_cache, key)
       /\ res_cache' = res_cache
       /\ hist' = [hist EXCEPT !.calls = @ + 1,
                     !.last = [eff |-> eff, before |-> before, ran |-> FALSE,
                               arr |-> drr_cache[i].val, prev |-> prev]]
  ELSE LET st == drr_loop([cache |-> res_cache, built |-> hist.built],
                          self, n, n_p, NGrid)
           arr == hist.runs + 1
       IN
       /\ drr_cache' = lru_insert(drr_cache, key, arr)
       /\ res_cache' = st.cache
       /\ hist' = [hist EXCEPT !.calls = @ + 1, !.runs = arr,
                     !.built = st.built,
                     !.done = IF before THEN @ ELSE @ \cup {<<eff, arr>>},
                     !.last = [eff |-> eff, before |-> before, ran |-> TRUE,
                               arr |-> arr, prev |-> prev]]

DrrCall ==
  /\ hist.calls < MaxCalls
  /\ \E self \in 1..NInst, n \in 1..MaxN, n_p \in 1..MaxN, form \in Forms :
       drr(self, 1, n, n_p, form)
  /\ UNCHANGED <<drr_obj, integ, ri, res>>

\* A sweep over the harmonics n = 1, 2, 3, ... with n_p = 1 on one instance,
\* coming back to n = 1 at any time: each step is one _drr call
DrrPointSweep ==
  /\ hist.swept < MaxSweep
  /\ \E n \in {1, hist.swept + 1} :
       LET st == drr_point([cache |-> res_cache, built |-> hist.built],
                           1, n, 1)
       IN /\ res_cache' = st.cache
          /\ hist' = [hist EXCEPT !.built = st.built,
                        !.swept = IF n > @ THEN n ELSE @]
  /\ UNCHANGED <<drr_obj, drr_cache, integ, ri, res>>

----------------------------------------------------------------------------
(* DRR._drr: the vegas integration of Clnnp and the final scaling          *)

\* Bounds of the integration inputs.
MaxNi == 2
BatchLen == 1

RECURSIVE Fact(_)
Fact(k) == IF k <= 1 THEN 1 ELSE k * Fact(k - 1)

\* Angular momenta get_jf1 and get_jf2 return for a sample: 0 is no solution
Jf1Vals == {0, 1}
Jf2Vals == {0, 2}
\* A2_integrand / |d_nu_p| at a sample and a branch, in units that keep the
\* division by n_p exact
WVals == {Fact(MaxNi + 1), 2 * Fact(MaxNi + 1)}
\* What vegas returns: the estimate and its standard deviation
IVals == 1..3
EVals == 1..2
\* What _A2_norm_factor returns
AVals == 1..2

Samples == [jf1 : Jf1Vals, jf2 : Jf2Vals, w1 : WVals, w2 : WVals]

\* drr.py 56-58: 2*j_p/abs(d_nu_p)/lnnp[-1] * A2_integrand
integrand(j_p, w, lnnp) == (2 * j_p * w) \div lnnp[3]

\* drr.py 84-90 at one sample: x = 0; x[ix1] = branch 1; x[ix2] = branch 2
Clnnp_point(s, lnnp) ==
  LET x0 == 0
      x1 == IF s.jf1 > 0 THEN integrand(s.jf1, s.w1, lnnp) ELSE x0
      x2 == IF s.jf2 > 0 THEN integrand(s.jf2, s.w2, lnnp) ELSE x1
  IN x2

\* drr.py 78-91
Clnnp(batch, lnnp) == [k \in DOMAIN batch |-> Clnnp_point(batch[k], lnnp)]

\* The scaling by the last index of the triple
drr_scale_last(v, lnnp, A) == v * A * lnnp[3] * lnnp[3]

\* drr.py 92-93: ... * _A2_norm_factor(*lnnp) * lnnp[1]**2
drr_scale(v, lnnp, A) == v * A * lnnp[2] * lnnp[2]

IntegInit ==
  [pc |-> "idle", lnnp |-> <<0, 0, 0>>, A |-> 0, batch |-> <<>>, x |-> <<>>,
   I |-> 0, E |-> 0, out |-> <<0, 0>>]

\* _drr is entered for a triple (drr.py 74-76)
DrrStart ==
  /\ integ.pc \in {"idle", "done"}
  /\ \E l \in 1..MaxNi, n \in 1..MaxNi, n_p \in 1..MaxNi, A \in AVals :
       integ' = [IntegInit EXCEPT !.pc = "running", !.lnnp = <<l, n, n_p>>,
                                  !.A = A]
  /\ UNCHANGED <<drr_obj, drr_cache, res_cache, hist, ri, res>>

\* vegas evaluates the batch integrand on a batch of samples
ClnnpEval ==
  /\ integ.pc = "running"
  /\ \E batch \in [1..BatchLen -> Samples] :
       integ' = [integ EXCEPT !.batch = batch, !.x = Clnnp(batch, integ.lnnp)]
  /\ UNCHANGED <<drr_obj, drr_cache, res_cache, hist, ri, res>>

\* integrate returns and _drr scales the result (drr.py 92-93, 96-102)
DrrFinish ==
  /\ integ.pc = "running"
  /\ integ.batch # <<>>
  /\ \E I \in IVals, E \in EVals :
       integ' = [integ EXCEPT !.pc = "done", !.batch = <<>>, !.x = <<>>,
                   !.I = I, !.E = E,
                   !.out = <<drr_scale(I, integ.lnnp, integ.A),
                             drr_scale(E, integ.lnnp, integ.A)>>]
  /\ UNCHANGED <<drr_obj, drr_cache, res_cache, hist, ri, res>>

----------------------------------------------------------------------------
(* ResInterp: construction of the tables and the two lookups               *)

\* Bounds: the number of axis samples (1000 in drr.py 141-143, 159-167),
\* of angular momentum samples (1001 less the last, drr.py 173-174), of
\* target frequencies, and the largest target frequency.
NAf == 3
NJf == 3
NOm == 2
MaxOm == 3

\* drr.py 189, 199: 1e-8, in the frequency unit
Tol == 1

\* The axis is measured in log10 from r_g, in units of log10(r_h / r_g)
LogRg == 0
LogRh == 1

AfDiv == LinDiv(NAf)
\* Final axis samples and a_gr1 are carried times AfDiv * AfDiv
AfTop == LogRh * AfDiv * AfDiv

RECURSIVE Pow2(_)
Pow2(k) == IF k <= 0 THEN 1 ELSE 2 * Pow2(k - 1)

SetMax(S) == CHOOSE x \in S : \A y \in S : y <= x
SetMin(S) == CHOOSE x \in S : \A y \in S : x <= y

\* The cusp model's precession frequency at axis a over the angular momentum
\* samples: decreasing in j from the level c the model has at that axis
nu_p(c) == [k \in 1..NJf |-> c - 2 * k]
\* Levels with no positive value, with a sign change, with no negative value
CVals == {2, 4, 2 * NJf + 1}

\* drr.py 173-174: np.logspace(np.log10(jlc(a)), 0, 1001)[:-1], with
\* jlc(a) = 2^-NJf and the sampled values carried times 2^NJf
jf_samples ==
  LET e == DropLast(linspace(0 - NJf, 0, NJf + 1)) IN
  [k \in 1..NJf |-> Pow2(e[k] \div LinDiv(NJf + 1) + NJf)]

\* np.argsort restricted to the indices in S: ascending by x
RECURSIVE argsort(_, _)
argsort(x, S) ==
  IF S = {} THEN <<>>
  ELSE LET m == CHOOSE i \in S :
                  \A k \in S : x[i] < x[k] \/ (x[i] = x[k] /\ i <= k)
       IN <<m>> \o argsort(x, S \ {m})

\* np.interp(x, xp, fp, left=0, right=0) at one x, xp increasing, not empty
interp(x, xp, fp) ==
  IF x < xp[1] THEN 0
  ELSE IF x > xp[Len(xp)] THEN 0
  ELSE IF x = xp[Len(xp)] THEN fp[Len(xp)]
  ELSE LET i == CHOOSE k \in 1..(Len(xp) - 1) : xp[k] <= x /\ x < xp[k + 1]
       IN fp[i] + ((x - xp[i]) * (fp[i + 1] - fp[i])) \div (xp[i + 1] - xp[i])

\* nup[nup > 0] is not empty
has_positive(nup) == \E k \in DOMAIN nup : nup[k] > 0

\* get_j of drr.py 147-154, for a nup with a positive value
get_j(nup, omega) ==
  LET s == argsort(nup, {k \in DOMAIN nup : nup[k] > 0})
      xp == [k \in DOMAIN s |-> nup[s[k]]]
      fp == [k \in DOMAIN s |-> jf_samples[s[k]]]
  IN [i \in DOMAIN omega |-> interp(omega[i], xp, fp)]

Neg(nup) == [k \in DOMAIN nup |-> 0 - nup[k]]

SeqMax(s) == SetMax(Range(s))

\* drr.py 159-161
af_initial == linspace(LogRg, LogRh, NAf)

\* The initial samples below a_gr1 at which omega.max() < nu_p1 (drr.py
\* 163-164), times AfDiv
a_min_candidates(omega, a_gr1, nu1) ==
  {af_initial[k] : k \in {i \in 1..NAf :
       af_initial[i] * AfDiv < a_gr1 /\ SeqMax(omega) < nu1[i]}}

\* The smallest candidate
a_min_smallest(omega, a_gr1, nu1) ==
  SetMin(a_min_candidates(omega, a_gr1, nu1))

\* drr.py 163-164: self._af[mask].max()
a_min_of(omega, a_gr1, nu1) == SetMax(a_min_candidates(omega, a_gr1, nu1))

\* drr.py 165-167
af_final(a_min) == linspace(a_min, LogRh * AfDiv, NAf)

ZeroRow == [i \in 1..NOm |-> 0]

\* The rows the two loops of drr.py 172-185 write.  below and above are the
\* axis values of self._af[self._af < a_gr1] and self._af[self._af > a_gr1].
below(af, a_gr1) == SelectSeq(af, LAMBDA a : a < a_gr1)
above(af, a_gr1) == SelectSeq(af, LAMBDA a : a > a_gr1)

\* The axis whose solution lands in table row k: <<a>>, or <<>> for a row
\* neither loop writes (last = i + 1 is the number of samples below)
row_axis(af, a_gr1, k) ==
  LET last == Len(below(af, a_gr1)) IN
  IF k <= last THEN <<below(af, a_gr1)[k]>>
  ELSE IF k - last <= Len(above(af, a_gr1))
       THEN <<above(af, a_gr1)[k - last]>>
       ELSE <<>>

RiInit ==
  [pc |-> "none", err |-> "none", omega |-> <<>>, a_gr1 |-> 0, nu1 |-> <<>>,
   a_min |-> 0, af |-> <<>>, level |-> <<>>, j1 |-> <<>>, j2 |-> <<>>]

ResInit == [op |-> "none", q |-> 0, afq |-> 0, kind |-> "none", col |-> 0,
            val |-> <<>>]

\* __init__ left by an exception: no instance, the inputs kept for the record
Raised(err, omega, a_gr1, nu1) ==
  [RiInit EXCEPT !.pc = "raised", !.err = err, !.omega = omega,
                 !.a_gr1 = a_gr1, !.nu1 = nu1]

\* The level of nu_p the cusp model has at axis value a
level_at(af, level, a) == level[CHOOSE k \in DOMAIN af : af[k] = a]

\* ResInterp.__init__(cusp, omega) (drr.py 136-185).  a_gr1, nu1 (nu_p1 at
\* the initial samples) and level (the level of nu_p at each final sample)
\* are what the cusp model answers.
res_interp_init(omega, a_gr1, nu1, level) ==
  IF a_min_candidates(omega, a_gr1, nu1) = {}
  THEN \* .max() of an empty array
       Raised("ValueError", omega, a_gr1, nu1)
  ELSE
  LET a_min == a_min_of(omega, a_gr1, nu1)
      af == af_final(a_min)
      nup(k) == nu_p(level_at(af, level, row_axis(af, a_gr1, k)[1]))
      written == {k \in 1..NAf : row_axis(af, a_gr1, k) # <<>>}
      row1(k) == IF k \in written THEN get_j(nup(k), omega) ELSE ZeroRow
      row2(k) == IF /\ k \in written
                    /\ k > Len(below(af, a_gr1))
                    /\ \E i \in 1..NJf : nup(k)[i] < 0
                 THEN get_j(Neg(nup(k)), omega)
                 ELSE ZeroRow
  IN IF below(af, a_gr1) = <<>>
     THEN \* last = i + 1 with i never bound
          Raised("UnboundLocalError", omega, a_gr1, nu1)
     ELSE IF \E k \in written : ~has_positive(nup(k))
     THEN \* np.interp on an empty array of sample points
          [Raised("ValueError", omega, a_gr1, nu1) EXCEPT
             !.a_min = a_min, !.af = af, !.level = level]
     ELSE [pc |-> "built", err |-> "none", omega |-> omega, a_gr1 |-> a_gr1,
           nu1 |-> nu1, a_min |-> a_min, af |-> af, level |-> level,
           j1 |-> [k \in 1..NAf |-> row1(k)],
           j2 |-> [k \in 1..NAf |-> row2(k)]]

\* Input sets of the construction
OmegaSet == [1..NOm -> 1..MaxOm]
OmegaAscending ==
  {om \in OmegaSet : \A k \in 1..(NOm - 1) : om[k] <= om[k + 1]}
AGr1Set == 0..(AfTop + 1)
\* nu_p1 at an initial sample: below every target frequency, or above
Nu1Set == [1..NAf -> {0, MaxOm + 1}]

Build(omegas, a_gr1s, nu1s, levels) ==
  /\ ri.pc = "none"
  /\ \E omega \in omegas, a_gr1 \in a_gr1s, nu1 \in nu1s,
        level \in [1..NAf -> levels] :
       ri' = res_interp_init(omega, a_gr1, nu1, level)
  /\ UNCHANGED <<drr_obj, drr_cache, res_cache, hist, integ, res>>

\* Any cusp model; the tables are built column by column, so the target
\* frequencies are taken in ascending order
BuildAny == Build(OmegaAscending, AGr1Set, Nu1Set, CVals)

\* A cusp model whose a_gr1 lies between the first two axis samples and
\* whose nu_p1 is above every target frequency
BuildRegular ==
  Build(OmegaSet, {1}, {[k \in 1..NAf |-> MaxOm + 1]}, {4, 2 * NJf + 1})

\* np.argmin(abs(omega - q)): the first index of the least distance
RECURSIVE argmin_scan(_, _, _, _)
argmin_scan(omega, q, k, best) ==
  IF k > Len(omega) THEN best
  ELSE argmin_scan(omega, q, k + 1,
                   IF Abs(omega[k] - q) < Abs(omega[best] - q) THEN k
                   ELSE best)

argmin(omega, q) == argmin_scan(omega, q, 2, 1)

\* The lookup test with the bound included in the failure
too_far_inclusive(d) == d >= Tol

\* drr.py 189, 199: abs(self.omega[i] - omega) > 1e-8
too_far(d) == d > Tol

\* The rest of get_jf1 / get_jf2 on column i of table tab (drr.py 191-195)
column_lookup(tab, af, i, afq) ==
  LET sel == SelectSeq([k \in 1..Len(af) |-> k], LAMBDA k : tab[k][i] > 0)
      xp == [k \in DOMAIN sel |-> af[sel[k]]]
      fp == [k \in DOMAIN sel |-> tab[sel[k]][i]]
  IN IF sel # <<>> THEN interp(afq, xp, fp) ELSE 0

\* get_jf1 / get_jf2 (drr.py 187-205) on table tab
get_jf(op, tab, q, afq) ==
  LET i == argmin(ri.omega, q) IN
  IF too_far(Abs(ri.omega[i] - q))
  THEN [op |-> op, q |-> q, afq |-> afq, kind |-> "ValueError", col |-> 0,
        val |-> <<>>]
  ELSE [op |-> op, q |-> q, afq |-> afq, kind |-> "ok", col |-> i,
        val |-> <<column_lookup(tab, ri.af, i, afq)>>]

QSet == 0..(MaxOm + 3)
\* An axis at r_g, one between samples, one beyond r_h
AfqSet == {0, AfDiv + 1, AfTop + 1}

GetJf1 ==
  /\ ri.pc = "built"
  /\ \E q \in QSet, afq \in AfqSet : res' = get_jf("get_jf1", ri.j1, q, afq)
  /\ UNCHANGED <<drr_obj, drr_cache, res_cache, hist, integ, ri>>

GetJf2 ==
  /\ ri.pc = "built"
  /\ \E q \in QSet, afq \in AfqSet : res' = get_jf("get_jf2", ri.j2, q, afq)
  /\ UNCHANGED <<drr_obj, drr_cache, res_cache, hist, integ, ri>>

----------------------------------------------------------------------------
(* The specifications                                                      *)

Init ==
  /\ drr_obj = NoObj
  /\ drr_cache = <<>>
  /\ res_cache = <<>>
  /\ hist = HistInit
  /\ integ = IntegInit
  /\ ri = RiInit
  /\ res = ResInit

Next ==
  \/ Main \/ Construct
  \/ DrrCall \/ DrrPointSweep
  \/ DrrStart \/ ClnnpEval \/ DrrFinish
  \/ BuildAny \/ GetJf1 \/ GetJf2

Spec == Init /\ [][Next]_vars

\* Construction of a DRR, from the command line or directly
SpecInit == Init /\ [][Main \/ Construct]_vars

\* Calls of drr on the constructed instances
SpecCache == Init /\ [][DrrCall]_vars

\* A long sweep of _drr calls over the harmonics
SpecLru == Init /\ [][DrrPointSweep]_vars

\* One _drr integration after the other
SpecInteg == Init /\ [][DrrStart \/ ClnnpEval \/ DrrFinish]_vars

\* Construction of a ResInterp over any cusp model
SpecBuild == Init /\ [][BuildAny]_vars

\* Lookups in a constructed ResInterp
SpecQuery == Init /\ [][BuildRegular \/ GetJf1 \/ GetJf2]_vars

----------------------------------------------------------------------------
(* The claims                                                              *)

\* C1: a drr call whose (self, l, n, n', neval) equals that of an earlier
\* completed call returns the array of that call and does not run the
\* integration again, in whatever form neval is passed.
C1_Memoized ==
  hist.last.before =>
    /\ ~hist.last.ran
    /\ hist.last.arr = hist.last.prev

\* C2: at most one ResInterp is ever constructed per instance and ratio.
C2_OneInterpPerRatio ==
  \A b \in hist.built : Builds(hist.built, b[1]) <= 1

\* The target frequencies are all more than 1e-8 away from the query
C3_Far ==
  \A k \in DOMAIN ri.omega : Abs(ri.omega[k] - res.q) > Tol

\* C3: get_jf1 / get_jf2 raise ValueError and return nothing exactly when
\* the query is more than 1e-8 away from every construction frequency;
\* otherwise they read the column of a nearest construction frequency.  The
\* tables stay what the construction made them.
C3_LookupTolerance ==
  res.op # "none" =>
    /\ (res.kind = "ValueError") <=> C3_Far
    /\ res.kind = "ValueError" => res.val = <<>>
    /\ ~C3_Far =>
         /\ res.kind = "ok"
         /\ res.col \in DOMAIN ri.omega
         /\ \A k \in DOMAIN ri.omega :
              Abs(ri.omega[res.col] - res.q) <= Abs(ri.omega[k] - res.q)
         /\ res.val =
              <<column_lookup(IF res.op = "get_jf1" THEN ri.j1 ELSE ri.j2,
                              ri.af, res.col, res.afq)>>
    /\ ri = res_interp_init(ri.omega, ri.a_gr1, ri.nu1, ri.level)

\* A lookup that failed, and the same table answering at the tolerance
C3_Witness ==
  /\ res.op = "get_jf1"
  /\ res.kind = "ValueError"
  /\ \E k \in DOMAIN ri.omega : Abs(ri.omega[k] - res.q) = Tol + 1

\* A DRR was constructed with jlc(sma) < 1
C4_Valid == drr_obj.how # "none" /\ drr_obj.ljlc < 0

C4_Increasing ==
  /\ Len(drr_obj.j) = drr_obj.Njs - 1
  /\ \A k \in 1..(Len(drr_obj.j) - 1) : drr_obj.j[k] < drr_obj.j[k + 1]

\* C4 as claimed: the grid is strictly increasing, has Njs - 1 points, and
\* every point lies strictly between jlc(sma) and 1.
C4_GridOpen ==
  C4_Valid =>
    /\ C4_Increasing
    /\ \A k \in DOMAIN drr_obj.j :
         /\ drr_obj.j[k] > drr_obj.ljlc * LinDiv(drr_obj.Njs)
         /\ drr_obj.j[k] < 0

\* C4 as amended: the grid is strictly increasing, has Njs - 1 points, its
\* first point is jlc(sma) itself and every point is below 1.
C4_GridHalfOpen ==
  C4_Valid =>
    /\ C4_Increasing
    /\ \A k \in DOMAIN drr_obj.j :
         /\ drr_obj.j[k] >= drr_obj.ljlc * LinDiv(drr_obj.Njs)
         /\ drr_obj.j[k] < 0
    /\ drr_obj.j # <<>> =>
         drr_obj.j[1] = drr_obj.ljlc * LinDiv(drr_obj.Njs)

C4_Witness == C4_Valid /\ Len(drr_obj.j) >= 3

\* C5: the cusp model of a command line run is constructed with the values
\* of --gamma, --mbh, --mstar and --rh.
C5_CliDefinesCusp ==
  drr_obj.how = "main" => drr_obj.cusp = drr_obj.opts

\* The sum of the integrands of the branches that have a solution
C6_BranchSum(s, lnnp) ==
  (IF s.jf1 > 0 THEN integrand(s.jf1, s.w1, lnnp) ELSE 0)
    + (IF s.jf2 > 0 THEN integrand(s.jf2, s.w2, lnnp) ELSE 0)

\* C6: at every sample Clnnp returns the sum of the integrands of the
\* branches that have a solution there.
C6_BranchesAdd ==
  \A k \in DOMAIN integ.batch :
    integ.x[k] = C6_BranchSum(integ.batch[k], integ.lnnp)

\* C7 as claimed: the estimate and its error are scaled by the normalisation
\* factor and by the square of n', the last index of the triple.
C7_ScaledByPartnerSquared ==
  integ.pc = "done" =>
    /\ integ.out[1] = integ.I * integ.A * integ.lnnp[3] * integ.lnnp[3]
    /\ integ.out[2] = integ.E * integ.A * integ.lnnp[3] * integ.lnnp[3]

\* C7 as amended: the estimate and its error are scaled by the normalisation
\* factor and by the square of n, the middle index of the triple.
C7_ScaledByNSquared ==
  integ.pc = "done" =>
    /\ integ.out[1] = integ.I * integ.A * integ.lnnp[2] * integ.lnnp[2]
    /\ integ.out[2] = integ.E * integ.A * integ.lnnp[2] * integ.lnnp[2]

C7_Witness == integ.pc = "done" /\ integ.lnnp[2] # integ.lnnp[3]

\* The initial samples below a_gr1 at which every target frequency is below
\* nu_p1, times AfDiv
C8_Candidates ==
  {af_initial[k] : k \in {i \in 1..NAf :
      /\ af_initial[i] * AfDiv < ri.a_gr1
      /\ \A m \in DOMAIN ri.omega : ri.omega[m] < ri.nu1[i]}}

C8_Sampled ==
  /\ Len(ri.af) = NAf
  /\ ri.af[1] = ri.a_min * AfDiv
  /\ ri.af[NAf] = AfTop

\* C8 as claimed: a_min is the smallest such sample, and the final samples
\* run from it to r_h.
C8_AMinSmallest ==
  ri.pc = "built" =>
    /\ ri.a_min \in C8_Candidates
    /\ \A c \in C8_Candidates : ri.a_min <= c
    /\ C8_Sampled

\* C8 as amended: a_min is the largest such sample, and the final samples
\* run from it to r_h.
C8_AMinLargest ==
  ri.pc = "built" =>
    /\ ri.a_min \in C8_Candidates
    /\ \A c \in C8_Candidates : c <= ri.a_min
    /\ C8_Sampled

C8_Witness == ri.pc = "built" /\ Cardinality(C8_Candidates) >= 2

\* C9: construction never raises.
C9_NeverRaises == ri.pc # "raised"

\* C10: row k of both tables belongs to axis sample k, and row k of _j2 is
\* zero where sample k is below a_gr1.
C10_RowsAligned ==
  ri.pc = "built" =>
    \A k \in 1..NAf :
      /\ ri.af[k] # ri.a_gr1 =>
           ri.j1[k] = get_j(nu_p(level_at(ri.af, ri.level, ri.af[k])),
                            ri.omega)
      /\ ri.af[k] < ri.a_gr1 => ri.j2[k] = ZeroRow

====
